---- MODULE Spec2Model ----
(***************************************************************************)
(* The powerhal CPU boost driver (cpu_input_boost with the powerhal        *)
(* extensions): the state bitset, the two delayed works that expire the    *)
(* boosts, the max-boost deadline, the cpu_boostd thread and the cpufreq   *)
(* policy notifier.  Every read or write of shared memory is one step.     *)
(***************************************************************************)
EXTENDS Integers, FiniteSets, Sequences, TLC

\* ------------------------------------------------------------- bounds
\* The clock stops at MaxJiffies; no delayed work is armed beyond it.
MaxJiffies == 2
\* The specifications that run both kinds of kick next to cpu_boostd stop the
\* clock at MaxJiffiesBoosts, and no kick arrives once it has stopped.
MaxJiffiesBoosts == 1

\* ---------------------------------------------------------- constants
SCREEN_OFF == 0
POWERHAL_BOOST == 1
POWERHAL_MAX_BOOST == 2

\* pm_qos_update_request(&b->pm_qos_req, 43)
PM_QOS_WFI_LATENCY == 43
\* PM_QOS_CPU_DMA_LAT_DEFAULT_VALUE, 2000 * USEC_PER_SEC
PM_QOS_CPU_DMA_LAT_DEFAULT_VALUE == 2000000000

\* set_hyst_trigger_count_val, set_hist_memory_val, set_hyst_length_val
HystBoost == <<0, 0, 0>>
HystUnboost == <<3, 20, 10>>

\* One low-power and one performance cluster; cpu_lp_mask holds the first.
Clusters == {"lp", "perf"}
cpu_lp_mask == {"lp"}

\* policy->cpuinfo.min_freq of each cluster, in units of 100 MHz.
cpuinfo_min_freq(c) == IF c = "lp" THEN 3 ELSE 5

\* What the uninitialised local `freq` of get_min_freq and get_idle_freq may
\* hold for a cluster outside cpu_lp_mask.
Uninitialised == {0, 9}

\* The module parameters (idle_min_freq_lp, boost_min_freq_lp), each below
\* and above the low-power cluster's minimum.
Tunables == {<<2, 7>>, <<4, 2>>}

\* powerhal_boost_duration and the duration_ms of powerhal_boost_kick_max,
\* in milliseconds.
BoostDurations == {0, 10}
KickMaxDurations == {0, 10, 20}

KickMaxShort == {0, 10}

\* The contexts that may be inside powerhal_boost_kick_max at once.
Callers == {1, 2}

VARIABLES
    state,                       \* b->state, the set of bits that are set
    jiffies,
    powerhal_max_boost_expires,  \* b->powerhal_max_boost_expires
    powerhal_unboost,            \* b->powerhal_unboost (delayed work)
    powerhal_max_unboost,        \* b->powerhal_max_unboost (delayed work)
    kicker,                      \* a context inside __powerhal_boost_kick
    maxkicker,                   \* the contexts inside __powerhal_boost_kick_max
    thread,                      \* cpu_boost_thread: pc, old_state, and the
                                 \* clusters its current pass has updated
    kthread_stop,                \* what kthread_should_stop() returns
    cb,                          \* the cpu_notifier_cb invocation in flight
    policy_min,                  \* policy->min of each cluster
    hyst,                        \* the three bw_hwmon hysteresis values
    pm_qos_req,                  \* the value of b->pm_qos_req
    schedtune_disabled,          \* disable_schedtune_boost("top-app", ..)
    idle_min_freq_lp,
    boost_min_freq_lp,
    powerhal_boost_duration,
    boost_until,                 \* history: latest issue time + duration of a kick
    max_boost_until,             \* history: the same for kick_max
    init,                        \* cpu_input_boost_init: pc, ret
    acquired                     \* what init has added or registered, in order

vars == <<state, jiffies, powerhal_max_boost_expires, powerhal_unboost,
          powerhal_max_unboost, kicker, maxkicker, thread, kthread_stop, cb,
          policy_min, hyst, pm_qos_req, schedtune_disabled,
          idle_min_freq_lp, boost_min_freq_lp, powerhal_boost_duration,
          boost_until, max_boost_until, init, acquired>>

policy_vars == <<policy_min, hyst, pm_qos_req, schedtune_disabled>>
tunable_vars == <<idle_min_freq_lp, boost_min_freq_lp, powerhal_boost_duration>>
history_vars == <<boost_until, max_boost_until>>
init_vars == <<init, acquired>>

\* ------------------------------------------------------------ helpers
Max(a, b) == IF a >= b THEN a ELSE b

test_bit(bit, s) == bit \in s
set_bit(bit, s) == s \cup {bit}
clear_bit(bit, s) == s \ {bit}

\* msecs_to_jiffies rounds up to whole jiffies (HZ = 100).
msecs_to_jiffies(m) ==
    LET HZ == 100
        MSEC_PER_SEC == 1000
    IN  (m + (MSEC_PER_SEC \div HZ) - 1) \div (MSEC_PER_SEC \div HZ)

\* time_after(a, b): a is later than b.
time_after(a, b) == b - a < 0

\* Line 124: "Skip this boost if there's a longer boost in effect".
never_skip(curr_expires, new_expires) == FALSE

\* The same test with time_after_eq: a boost that ends at new_expires counts
\* as longer.
longer_or_equal_boost_in_effect(curr_expires, new_expires) ==
    new_expires - curr_expires <= 0

longer_boost_in_effect(curr_expires, new_expires) ==
    time_after(curr_expires, new_expires)

\* A delayed work: `pending` is WORK_STRUCT_PENDING (timer armed or work
\* queued), `expires` the timer's deadline, `run` says the worker function
\* has been dequeued and has not returned.
IdleWork == [pending |-> FALSE, expires |-> 0, run |-> FALSE]

\* A mod_delayed_work that arms nothing.
mod_delayed_work_lost(dw, delay) == dw

\* mod_delayed_work: (re)arm the timer at jiffies + delay, a delay of 0 queues
\* the work at once.  Its return value is the old pending bit.
mod_delayed_work(dw, delay) ==
    [dw EXCEPT !.pending = TRUE, !.expires = jiffies + delay]

\* A context outside __powerhal_boost_kick / __powerhal_boost_kick_max; the
\* locals of a call are dead once it returns.
IdleKick == [pc |-> "idle", issued |-> 0]
IdleKickMax == [pc |-> "idle", boost_jiffies |-> 0, issued |-> 0,
                curr_expires |-> 0, new_expires |-> 0]

\* A deadline that has passed is forgotten.
forget(until, now) == IF until <= now THEN 0 ELSE until

\* wake_up(&b->boost_waitq): a sleeping cpu_boostd evaluates its condition
\* again.
wake_up(t) == IF t.pc = "sleep" THEN [t EXCEPT !.pc = "woken"] ELSE t

\* ------------------------------------------------------ floor helpers
min_freq_unclamped(c, garbage) ==
    IF c \in cpu_lp_mask THEN boost_min_freq_lp ELSE garbage

get_min_freq(c, garbage) ==
    LET freq == IF c \in cpu_lp_mask THEN boost_min_freq_lp ELSE garbage
    IN  Max(freq, cpuinfo_min_freq(c))

idle_freq_unclamped(c, garbage) ==
    IF c \in cpu_lp_mask THEN idle_min_freq_lp ELSE garbage

get_idle_freq(c, garbage) ==
    LET freq == IF c \in cpu_lp_mask THEN idle_min_freq_lp ELSE garbage
    IN  Max(freq, cpuinfo_min_freq(c))

\* --------------------------------------------------------------- Init
\* boost_drv_g as the image holds it, before cpu_input_boost_init has run.
InitDriver ==
    /\ state = {}
    /\ jiffies = 0
    /\ powerhal_max_boost_expires = 0
    /\ powerhal_unboost = IdleWork
    /\ powerhal_max_unboost = IdleWork
    /\ kicker = IdleKick
    /\ maxkicker = [c \in Callers |-> IdleKickMax]
    /\ thread = [pc |-> "start", old_state |-> {}, updated |-> {}]
    /\ kthread_stop = FALSE
    /\ cb = [pc |-> "idle", cluster |-> "none", by |-> "none"]
    /\ policy_min = [c \in Clusters |-> cpuinfo_min_freq(c)]
    /\ hyst = HystUnboost
    /\ pm_qos_req = PM_QOS_CPU_DMA_LAT_DEFAULT_VALUE
    /\ schedtune_disabled = FALSE
    /\ \E t \in Tunables :
          /\ idle_min_freq_lp = t[1]
          /\ boost_min_freq_lp = t[2]
    /\ powerhal_boost_duration \in BoostDurations
    /\ boost_until = 0
    /\ max_boost_until = 0

\* The order in which cpu_input_boost_init acquires.
Acquisitions == <<"pm_qos_req", "cpu_notif", "input_handler", "fb_notif", "thread">>

\* The driver after cpu_input_boost_init has returned 0.
Init ==
    /\ InitDriver
    /\ init = [pc |-> "returned", ret |-> 0]
    /\ acquired = Acquisitions

\* --------------------------------------------------------------- time
\* The delay a context inside a kick is about to arm its delayed work with.
InFlightDelays ==
    {msecs_to_jiffies(powerhal_boost_duration) : k \in {x \in {kicker} : x.pc # "idle"}}
    \cup {maxkicker[c].boost_jiffies : c \in {x \in Callers : maxkicker[x].pc # "idle"}}

Tick ==
    /\ jiffies < MaxJiffies
    /\ \A d \in InFlightDelays : jiffies + 1 + d <= MaxJiffies
    /\ jiffies' = jiffies + 1
    /\ boost_until' = forget(boost_until, jiffies + 1)
    /\ max_boost_until' = forget(max_boost_until, jiffies + 1)
    /\ UNCHANGED <<state, powerhal_max_boost_expires, powerhal_unboost,
                   powerhal_max_unboost, kicker, maxkicker, thread,
                   kthread_stop, cb, policy_vars, tunable_vars, init_vars>>

\* ------------------------------------------------ __powerhal_boost_kick
\* __powerhal_boost_kick without the SCREEN_OFF test of line 91.
powerhal_boost_kick_enter_screen_unchecked ==
    /\ kicker.pc = "idle"
    /\ jiffies + msecs_to_jiffies(powerhal_boost_duration) <= MaxJiffies
    /\ IF powerhal_boost_duration = 0
       THEN UNCHANGED kicker
       ELSE kicker' = [pc |-> "set_bit", issued |-> jiffies]
    /\ UNCHANGED <<state, jiffies, powerhal_max_boost_expires,
                   powerhal_unboost, powerhal_max_unboost, maxkicker, thread,
                   kthread_stop, cb, policy_vars, tunable_vars, init_vars, history_vars>>

\* __powerhal_boost_kick without the duration test of line 94.
powerhal_boost_kick_enter_duration_unchecked ==
    /\ kicker.pc = "idle"
    /\ jiffies + msecs_to_jiffies(powerhal_boost_duration) <= MaxJiffies
    /\ IF test_bit(SCREEN_OFF, state)
       THEN UNCHANGED kicker
       ELSE kicker' = [pc |-> "set_bit", issued |-> jiffies]
    /\ UNCHANGED <<state, jiffies, powerhal_max_boost_expires,
                   powerhal_unboost, powerhal_max_unboost, maxkicker, thread,
                   kthread_stop, cb, policy_vars, tunable_vars, init_vars, history_vars>>

\* Lines 91-95: the two early returns.
powerhal_boost_kick_enter ==
    /\ kicker.pc = "idle"
    /\ jiffies + msecs_to_jiffies(powerhal_boost_duration) <= MaxJiffies
    /\ IF test_bit(SCREEN_OFF, state) \/ powerhal_boost_duration = 0
       THEN UNCHANGED kicker
       ELSE kicker' = [pc |-> "set_bit", issued |-> jiffies]
    /\ UNCHANGED <<state, jiffies, powerhal_max_boost_expires,
                   powerhal_unboost, powerhal_max_unboost, maxkicker, thread,
                   kthread_stop, cb, policy_vars, tunable_vars, init_vars, history_vars>>

\* Line 97.
powerhal_boost_kick_set_bit ==
    /\ kicker.pc = "set_bit"
    /\ state' = set_bit(POWERHAL_BOOST, state)
    /\ kicker' = [kicker EXCEPT !.pc = "mod", !.issued = 0]
    /\ boost_until' = forget(Max(boost_until, kicker.issued
                           + msecs_to_jiffies(powerhal_boost_duration)), jiffies)
    /\ UNCHANGED <<jiffies, powerhal_max_boost_expires, powerhal_unboost,
                   powerhal_max_unboost, maxkicker, thread, kthread_stop, cb,
                   policy_vars, tunable_vars, init_vars, max_boost_until>>

\* Lines 98-100.
powerhal_boost_kick_mod ==
    /\ kicker.pc = "mod"
    /\ powerhal_unboost' = mod_delayed_work(powerhal_unboost,
                               msecs_to_jiffies(powerhal_boost_duration))
    /\ thread' = IF ~powerhal_unboost.pending THEN wake_up(thread) ELSE thread
    /\ kicker' = IdleKick
    /\ UNCHANGED <<state, jiffies, powerhal_max_boost_expires,
                   powerhal_max_unboost, maxkicker, kthread_stop, cb,
                   policy_vars, tunable_vars, init_vars, history_vars>>

\* -------------------------------------------- __powerhal_boost_kick_max
\* Lines 113-117.
powerhal_boost_kick_max_enter(c, duration_ms) ==
    /\ maxkicker[c].pc = "idle"
    /\ jiffies + msecs_to_jiffies(duration_ms) <= MaxJiffies
    /\ IF test_bit(SCREEN_OFF, state)
       THEN UNCHANGED maxkicker
       ELSE maxkicker' = [maxkicker EXCEPT ![c] =
                [pc |-> "read", boost_jiffies |-> msecs_to_jiffies(duration_ms),
                 issued |-> jiffies, curr_expires |-> 0, new_expires |-> 0]]
    /\ UNCHANGED <<state, jiffies, powerhal_max_boost_expires,
                   powerhal_unboost, powerhal_max_unboost, kicker, thread,
                   kthread_stop, cb, policy_vars, tunable_vars, init_vars, history_vars>>

\* Lines 120-125: read the deadline and the clock, skip if a longer boost is
\* in effect.
powerhal_boost_kick_max_read(c) ==
    /\ maxkicker[c].pc = "read"
    /\ LET curr == powerhal_max_boost_expires
           new == jiffies + maxkicker[c].boost_jiffies
       IN  maxkicker' = [maxkicker EXCEPT ![c] =
               IF longer_boost_in_effect(curr, new)
               THEN IdleKickMax
               ELSE [@ EXCEPT !.pc = "cmpxchg", !.curr_expires = curr,
                              !.new_expires = new]]
    /\ UNCHANGED <<state, jiffies, powerhal_max_boost_expires,
                   powerhal_unboost, powerhal_max_unboost, kicker, thread,
                   kthread_stop, cb, policy_vars, tunable_vars, init_vars, history_vars>>

\* Lines 126-127: atomic_long_cmpxchg, retry when it fails.
powerhal_boost_kick_max_cmpxchg(c) ==
    /\ maxkicker[c].pc = "cmpxchg"
    /\ IF powerhal_max_boost_expires = maxkicker[c].curr_expires
       THEN /\ powerhal_max_boost_expires' = maxkicker[c].new_expires
            /\ maxkicker' = [maxkicker EXCEPT ![c].pc = "set_bit",
                                 ![c].curr_expires = 0, ![c].new_expires = 0]
       ELSE /\ UNCHANGED powerhal_max_boost_expires
            /\ maxkicker' = [maxkicker EXCEPT ![c].pc = "read",
                                 ![c].curr_expires = 0, ![c].new_expires = 0]
    /\ UNCHANGED <<state, jiffies, powerhal_unboost, powerhal_max_unboost,
                   kicker, thread, kthread_stop, cb, policy_vars,
                   tunable_vars, init_vars, history_vars>>

\* Line 129.
powerhal_boost_kick_max_set_bit(c) ==
    /\ maxkicker[c].pc = "set_bit"
    /\ state' = set_bit(POWERHAL_MAX_BOOST, state)
    /\ maxkicker' = [maxkicker EXCEPT ![c].pc = "mod", ![c].issued = 0]
    /\ max_boost_until' = forget(Max(max_boost_until, maxkicker[c].issued
                               + maxkicker[c].boost_jiffies), jiffies)
    /\ UNCHANGED <<jiffies, powerhal_max_boost_expires, powerhal_unboost,
                   powerhal_max_unboost, kicker, thread, kthread_stop, cb,
                   policy_vars, tunable_vars, init_vars, boost_until>>

\* Lines 130-132.
powerhal_boost_kick_max_mod(c) ==
    /\ maxkicker[c].pc = "mod"
    /\ powerhal_max_unboost' = mod_delayed_work(powerhal_max_unboost,
                                   maxkicker[c].boost_jiffies)
    /\ thread' = IF ~powerhal_max_unboost.pending
                 THEN wake_up(thread) ELSE thread
    /\ maxkicker' = [maxkicker EXCEPT ![c] = IdleKickMax]
    /\ UNCHANGED <<state, jiffies, powerhal_max_boost_expires,
                   powerhal_unboost, kicker, kthread_stop, cb, policy_vars,
                   tunable_vars, init_vars, history_vars>>

\* The steps of a call that has passed the SCREEN_OFF test.
powerhal_boost_kick_max(c) ==
    \/ powerhal_boost_kick_max_read(c)
    \/ powerhal_boost_kick_max_cmpxchg(c)
    \/ powerhal_boost_kick_max_set_bit(c)
    \/ powerhal_boost_kick_max_mod(c)

\* ------------------------------------------------- the unboost workers
\* The workqueue dequeues a delayed work whose timer has expired: the pending
\* bit is cleared before the worker function runs, and a work item never runs
\* concurrently with itself.
dequeue(dw) == [dw EXCEPT !.pending = FALSE, !.expires = 0, !.run = TRUE]

can_dequeue(dw) == dw.pending /\ ~dw.run /\ ~time_after(dw.expires, jiffies)

powerhal_unboost_dequeue ==
    /\ can_dequeue(powerhal_unboost)
    /\ powerhal_unboost' = dequeue(powerhal_unboost)
    /\ UNCHANGED <<state, jiffies, powerhal_max_boost_expires,
                   powerhal_max_unboost, kicker, maxkicker, thread,
                   kthread_stop, cb, policy_vars, tunable_vars, init_vars, history_vars>>

\* powerhal_unboost_worker clearing both boost bits.
powerhal_unboost_worker_clears_both ==
    /\ powerhal_unboost.run
    /\ state' = clear_bit(POWERHAL_MAX_BOOST, clear_bit(POWERHAL_BOOST, state))
    /\ thread' = wake_up(thread)
    /\ powerhal_unboost' = [powerhal_unboost EXCEPT !.run = FALSE]
    /\ UNCHANGED <<jiffies, powerhal_max_boost_expires, powerhal_max_unboost,
                   kicker, maxkicker, kthread_stop, cb, policy_vars,
                   tunable_vars, init_vars, history_vars>>

\* Lines 147-148.
powerhal_unboost_worker ==
    /\ powerhal_unboost.run
    /\ state' = clear_bit(POWERHAL_BOOST, state)
    /\ thread' = wake_up(thread)
    /\ powerhal_unboost' = [powerhal_unboost EXCEPT !.run = FALSE]
    /\ UNCHANGED <<jiffies, powerhal_max_boost_expires, powerhal_max_unboost,
                   kicker, maxkicker, kthread_stop, cb, policy_vars,
                   tunable_vars, init_vars, history_vars>>

powerhal_max_unboost_dequeue ==
    /\ can_dequeue(powerhal_max_unboost)
    /\ powerhal_max_unboost' = dequeue(powerhal_max_unboost)
    /\ UNCHANGED <<state, jiffies, powerhal_max_boost_expires,
                   powerhal_unboost, kicker, maxkicker, thread, kthread_stop,
                   cb, policy_vars, tunable_vars, init_vars, history_vars>>

\* Lines 156-157.
powerhal_max_unboost_worker ==
    /\ powerhal_max_unboost.run
    /\ state' = clear_bit(POWERHAL_MAX_BOOST, state)
    /\ thread' = wake_up(thread)
    /\ powerhal_max_unboost' = [powerhal_max_unboost EXCEPT !.run = FALSE]
    /\ UNCHANGED <<jiffies, powerhal_max_boost_expires, powerhal_unboost,
                   kicker, maxkicker, kthread_stop, cb, policy_vars,
                   tunable_vars, init_vars, history_vars>>

\* ------------------------------------------------------ fb_notifier_cb
FbActions == {"FB_EARLY_EVENT_BLANK", "FB_EVENT_BLANK"}
FbBlanks == {"FB_BLANK_UNBLANK", "FB_BLANK_POWERDOWN"}

fb_notifier_cb(action, blank) ==
    /\ IF action # "FB_EARLY_EVENT_BLANK"
       THEN UNCHANGED <<state, thread, schedtune_disabled>>
       ELSE IF blank = "FB_BLANK_UNBLANK"
       THEN /\ schedtune_disabled' = FALSE
            /\ state' = clear_bit(SCREEN_OFF, state)
            /\ UNCHANGED thread
       ELSE /\ state' = set_bit(SCREEN_OFF, state)
            /\ thread' = wake_up(thread)
            /\ UNCHANGED schedtune_disabled
    /\ UNCHANGED <<jiffies, powerhal_max_boost_expires, powerhal_unboost,
                   powerhal_max_unboost, kicker, maxkicker, kthread_stop, cb,
                   policy_min, hyst, pm_qos_req, tunable_vars, init_vars, history_vars>>

\* ----------------------------------------------------- cpu_notifier_cb
\* cpu_notifier_cb with the boost bits tested before SCREEN_OFF.
cpu_notifier_cb_enter_boost_first(c, by, garbage) ==
    /\ cb.pc = "idle"
    /\ IF test_bit(SCREEN_OFF, state) /\ ~test_bit(POWERHAL_BOOST, state)
          /\ ~test_bit(POWERHAL_MAX_BOOST, state)
       THEN /\ policy_min' = [policy_min EXCEPT ![c] = get_idle_freq(c, garbage)]
            /\ schedtune_disabled' = TRUE
            /\ hyst' = HystUnboost
            /\ cb' = [pc |-> "idle", cluster |-> c, by |-> by]
            /\ thread' = IF by = "thread"
                         THEN [thread EXCEPT !.pc = "wait",
                                             !.updated = @ \cup {c}]
                         ELSE thread
       ELSE /\ cb' = [pc |-> "max_boost", cluster |-> c, by |-> by]
            /\ UNCHANGED <<policy_min, schedtune_disabled, hyst, thread>>
    /\ UNCHANGED <<state, jiffies, powerhal_max_boost_expires,
                   powerhal_unboost, powerhal_max_unboost, kicker, maxkicker,
                   kthread_stop, pm_qos_req, tunable_vars, init_vars, history_vars>>

\* Lines 198-206 when SCREEN_OFF is set; otherwise the callback goes on to
\* test POWERHAL_MAX_BOOST.  `by` is "thread" for the invocation that
\* cpu_boostd's cpufreq_update_policy makes and "cpufreq" for any other.
cpu_notifier_cb_enter(c, by, garbage) ==
    /\ cb.pc = "idle"
    /\ IF test_bit(SCREEN_OFF, state)
       THEN /\ policy_min' = [policy_min EXCEPT ![c] = get_idle_freq(c, garbage)]
            /\ schedtune_disabled' = TRUE
            /\ hyst' = HystUnboost
            /\ cb' = [pc |-> "idle", cluster |-> c, by |-> by]
            /\ thread' = IF by = "thread"
                         THEN [thread EXCEPT !.pc = "wait",
                                             !.updated = @ \cup {c}]
                         ELSE thread
       ELSE /\ cb' = [pc |-> "max_boost", cluster |-> c, by |-> by]
            /\ UNCHANGED <<policy_min, schedtune_disabled, hyst, thread>>
    /\ UNCHANGED <<state, jiffies, powerhal_max_boost_expires,
                   powerhal_unboost, powerhal_max_unboost, kicker, maxkicker,
                   kthread_stop, pm_qos_req, tunable_vars, init_vars, history_vars>>

\* Lines 209-225.
cpu_notifier_cb_max_boost ==
    /\ cb.pc = "max_boost"
    /\ IF test_bit(POWERHAL_MAX_BOOST, state)
       THEN /\ hyst' = HystBoost
            /\ pm_qos_req' = PM_QOS_WFI_LATENCY
       ELSE /\ pm_qos_req' = PM_QOS_CPU_DMA_LAT_DEFAULT_VALUE
            /\ UNCHANGED hyst
    /\ cb' = [cb EXCEPT !.pc = "boost"]
    /\ UNCHANGED <<state, jiffies, powerhal_max_boost_expires,
                   powerhal_unboost, powerhal_max_unboost, kicker, maxkicker,
                   thread, kthread_stop, policy_min, schedtune_disabled,
                   tunable_vars, init_vars, history_vars>>

\* Lines 227-241.
cpu_notifier_cb_boost(garbage) ==
    /\ cb.pc = "boost"
    /\ hyst' = IF test_bit(POWERHAL_BOOST, state) THEN HystBoost ELSE HystUnboost
    /\ policy_min' = [policy_min EXCEPT
                         ![cb.cluster] = get_min_freq(cb.cluster, garbage)]
    /\ cb' = [cb EXCEPT !.pc = "idle"]
    /\ thread' = IF cb.by = "thread"
                 THEN [thread EXCEPT !.pc = "wait",
                                     !.updated = @ \cup {cb.cluster}]
                 ELSE thread
    /\ UNCHANGED <<state, jiffies, powerhal_max_boost_expires,
                   powerhal_unboost, powerhal_max_unboost, kicker, maxkicker,
                   kthread_stop, pm_qos_req, schedtune_disabled, tunable_vars, init_vars, history_vars>>

\* The cpufreq core runs the policy notifier chain for a cluster on its own
\* (a governor or limits change); only CPUFREQ_ADJUST is acted on.
CpufreqEvents == {"CPUFREQ_ADJUST", "CPUFREQ_NOTIFY"}

cpufreq_policy_notify(c, action) ==
    /\ cb.pc = "idle"
    /\ thread.pc # "update"
    /\ IF action # "CPUFREQ_ADJUST"
       THEN UNCHANGED vars
       ELSE \E g \in Uninitialised : cpu_notifier_cb_enter(c, "cpufreq", g)

\* ----------------------------------------------------- cpu_boost_thread
\* wait_event's condition with every wake-up passing.
wait_condition_any_wake(curr_state, old_state, stop) ==
    [pass |-> TRUE, should_stop |-> stop]

\* wait_event's condition with kthread_should_stop() tested first.
wait_condition_stop_first(curr_state, old_state, stop) ==
    [pass |-> curr_state # old_state \/ stop, should_stop |-> stop]

\* wait_event's condition, lines 175-176: the first disjunct short-circuits
\* the second, so should_stop is only set when the state is unchanged.
wait_condition(curr_state, old_state, stop) ==
    [pass |-> curr_state # old_state \/ stop,
     should_stop |-> curr_state = old_state /\ stop]

\* Lines 174-181: evaluate the condition; sleep if it is false, leave the
\* loop if should_stop, else remember the state read and go on to update.
cpu_boost_thread_wait ==
    /\ thread.pc \in {"start", "woken", "wait"}
    /\ LET w == wait_condition(state, thread.old_state, kthread_stop)
       IN  thread' = IF ~w.pass THEN [thread EXCEPT !.pc = "sleep"]
                     ELSE IF w.should_stop THEN [thread EXCEPT !.pc = "done"]
                     ELSE [pc |-> "update", old_state |-> state, updated |-> {}]
    /\ UNCHANGED <<state, jiffies, powerhal_max_boost_expires,
                   powerhal_unboost, powerhal_max_unboost, kicker, maxkicker,
                   kthread_stop, cb, policy_vars, tunable_vars, init_vars, history_vars>>

\* Lines 84-85: the first online CPU of cpu_lp_mask, and that one only.
update_online_cpu_policy_cpus == cpu_lp_mask

\* Line 182: cpufreq_update_policy calls cpu_notifier_cb synchronously.
update_online_cpu_policy ==
    /\ thread.pc = "update"
    /\ \E c \in update_online_cpu_policy_cpus :
          \E g \in Uninitialised : cpu_notifier_cb_enter(c, "thread", g)

\* kthread_stop(): raise the flag and wake the thread.
kthread_stop_thread ==
    /\ ~kthread_stop
    /\ kthread_stop' = TRUE
    /\ thread' = wake_up(thread)
    /\ UNCHANGED <<state, jiffies, powerhal_max_boost_expires,
                   powerhal_unboost, powerhal_max_unboost, kicker, maxkicker,
                   cb, policy_vars, tunable_vars, init_vars, history_vars>>

\* ------------------------------------------------ cpu_input_boost_init
\* What a failing registration returns (-ENOMEM).
InitErrors == {-12}

acquire(name) == Append(acquired, name)
release(name) == SelectSeq(acquired, LAMBDA x : x # name)

runtime_vars == <<state, jiffies, powerhal_max_boost_expires, powerhal_unboost,
                  powerhal_max_unboost, kicker, maxkicker, thread, kthread_stop,
                  cb, policy_vars, idle_min_freq_lp, boost_min_freq_lp,
                  powerhal_boost_duration, history_vars>>

\* Lines 354-355: pm_qos_add_request cannot fail.
init_pm_qos_add_request ==
    /\ init.pc = "pm_qos_add_request"
    /\ acquired' = acquire("pm_qos_req")
    /\ init' = [init EXCEPT !.pc = "cpufreq_register_notifier"]
    /\ UNCHANGED runtime_vars

\* Lines 357-362: on failure, return ret at once.
init_cpufreq_register_notifier ==
    /\ init.pc = "cpufreq_register_notifier"
    /\ \E ret \in {0} \cup InitErrors :
          IF ret # 0
          THEN /\ init' = [pc |-> "returned", ret |-> ret]
               /\ UNCHANGED acquired
          ELSE /\ init' = [init EXCEPT !.pc = "input_register_handler"]
               /\ acquired' = acquire("cpu_notif")
    /\ UNCHANGED runtime_vars

\* Lines 364-369.
init_input_register_handler ==
    /\ init.pc = "input_register_handler"
    /\ \E ret \in {0} \cup InitErrors :
          IF ret # 0
          THEN /\ init' = [pc |-> "unregister_cpu_notif", ret |-> ret]
               /\ UNCHANGED acquired
          ELSE /\ init' = [init EXCEPT !.pc = "fb_register_client"]
               /\ acquired' = acquire("input_handler")
    /\ UNCHANGED runtime_vars

\* Lines 371-377.
init_fb_register_client ==
    /\ init.pc = "fb_register_client"
    /\ \E ret \in {0} \cup InitErrors :
          IF ret # 0
          THEN /\ init' = [pc |-> "unregister_handler", ret |-> ret]
               /\ UNCHANGED acquired
          ELSE /\ init' = [init EXCEPT !.pc = "kthread_run"]
               /\ acquired' = acquire("fb_notif")
    /\ UNCHANGED runtime_vars

\* Lines 379-386.
init_kthread_run ==
    /\ init.pc = "kthread_run"
    /\ \E ret \in {0} \cup InitErrors :
          IF ret # 0
          THEN /\ init' = [pc |-> "unregister_fb_notif", ret |-> ret]
               /\ UNCHANGED acquired
          ELSE /\ init' = [pc |-> "returned", ret |-> 0]
               /\ acquired' = acquire("thread")
    /\ UNCHANGED runtime_vars

\* Lines 388-389.
init_unregister_fb_notif ==
    /\ init.pc = "unregister_fb_notif"
    /\ acquired' = release("fb_notif")
    /\ init' = [init EXCEPT !.pc = "unregister_handler"]
    /\ UNCHANGED runtime_vars

\* Lines 390-391.
init_unregister_handler ==
    /\ init.pc = "unregister_handler"
    /\ acquired' = release("input_handler")
    /\ init' = [init EXCEPT !.pc = "unregister_cpu_notif"]
    /\ UNCHANGED runtime_vars

\* Lines 392-393.
init_unregister_cpu_notif ==
    /\ init.pc = "unregister_cpu_notif"
    /\ acquired' = release("cpu_notif")
    /\ init' = [init EXCEPT !.pc = "pm_qos_remove_request"]
    /\ UNCHANGED runtime_vars

\* Lines 394-395.
init_pm_qos_remove_request ==
    /\ init.pc = "pm_qos_remove_request"
    /\ acquired' = release("pm_qos_req")
    /\ init' = [init EXCEPT !.pc = "returned"]
    /\ UNCHANGED runtime_vars

cpu_input_boost_init ==
    \/ init_pm_qos_add_request
    \/ init_cpufreq_register_notifier
    \/ init_input_register_handler
    \/ init_fb_register_client
    \/ init_kthread_run
    \/ init_unregister_fb_notif
    \/ init_unregister_handler
    \/ init_unregister_cpu_notif
    \/ init_pm_qos_remove_request

\* -------------------------------------------------------------- specs
powerhal_boost_kick ==
    \/ powerhal_boost_kick_enter
    \/ powerhal_boost_kick_set_bit
    \/ powerhal_boost_kick_mod

Workers ==
    \/ powerhal_unboost_dequeue
    \/ powerhal_unboost_worker
    \/ powerhal_max_unboost_dequeue
    \/ powerhal_max_unboost_worker

Display == \E a \in FbActions, bl \in FbBlanks : fb_notifier_cb(a, bl)

Bridge ==
    \/ \E c \in Clusters, a \in CpufreqEvents : cpufreq_policy_notify(c, a)
    \/ cpu_notifier_cb_max_boost
    \/ \E g \in Uninitialised : cpu_notifier_cb_boost(g)

Coordinator ==
    \/ cpu_boost_thread_wait
    \/ update_online_cpu_policy

\* The whole driver: input and API kicks, both unboost workers, the display
\* notifier, cpu_boostd and the policy notifier for every cluster.
Next ==
    \/ Tick
    \/ powerhal_boost_kick
    \/ \E c \in Callers, d \in KickMaxDurations : powerhal_boost_kick_max_enter(c, d)
    \/ \E c \in Callers : powerhal_boost_kick_max(c)
    \/ Workers
    \/ Display
    \/ Bridge
    \/ Coordinator
    \/ kthread_stop_thread

Spec == Init /\ [][Next]_vars

\* Concurrent powerhal_boost_kick_max calls and the max-unboost worker, with
\* the screen on.
InitMax ==
    /\ Init
    /\ idle_min_freq_lp = 2
    /\ powerhal_boost_duration = 10

NextMax ==
    \/ Tick
    \/ \E c \in Callers, d \in KickMaxDurations : powerhal_boost_kick_max_enter(c, d)
    \/ \E c \in Callers : powerhal_boost_kick_max(c)
    \/ powerhal_max_unboost_dequeue
    \/ powerhal_max_unboost_worker

SpecMax == InitMax /\ [][NextMax]_vars

\* cpu_boostd with the input kicks, the unboost worker and the display
\* notifier; its policy updates run cpu_notifier_cb.
NextCoordinator ==
    \/ Tick
    \/ powerhal_boost_kick
    \/ powerhal_unboost_dequeue
    \/ powerhal_unboost_worker
    \/ Display
    \/ Coordinator
    \/ cpu_notifier_cb_max_boost
    \/ \E g \in Uninitialised : cpu_notifier_cb_boost(g)
    \/ kthread_stop_thread

SpecCoordinator == Init /\ [][NextCoordinator]_vars

\* The policy notifier of the low-power cluster against every way the three
\* bits are set and cleared.
InitPolicy ==
    /\ Init
    /\ powerhal_boost_duration = 10

NextPolicy ==
    \/ Tick
    \/ powerhal_boost_kick
    \/ powerhal_boost_kick_max_enter(1, 10)
    \/ powerhal_boost_kick_max(1)
    \/ Workers
    \/ Display
    \/ \E a \in CpufreqEvents : cpufreq_policy_notify("lp", a)
    \/ cpu_notifier_cb_max_boost
    \/ \E g \in Uninitialised : cpu_notifier_cb_boost(g)

SpecPolicy == InitPolicy /\ [][NextPolicy]_vars

\* The same with the scheduler's guarantees: cpu_boostd, a policy update in
\* progress, a kick in progress and the workqueue all get to run, and the
\* clock advances.  No stop signal is raised.
NextFairCoordinator ==
    \/ Tick
    \/ powerhal_boost_kick
    \/ powerhal_unboost_dequeue
    \/ powerhal_unboost_worker
    \/ Display
    \/ Coordinator
    \/ cpu_notifier_cb_max_boost
    \/ \E g \in Uninitialised : cpu_notifier_cb_boost(g)

FairCoordinator ==
    /\ Init
    /\ [][NextFairCoordinator]_vars
    /\ WF_vars(Tick)
    /\ WF_vars(powerhal_boost_kick_set_bit)
    /\ WF_vars(powerhal_boost_kick_mod)
    /\ WF_vars(powerhal_unboost_dequeue)
    /\ WF_vars(powerhal_unboost_worker)
    /\ WF_vars(Coordinator)
    /\ WF_vars(cpu_notifier_cb_max_boost)
    /\ WF_vars(\E g \in Uninitialised : cpu_notifier_cb_boost(g))

\* Both kinds of kick with both unboost workers, the display notifier and
\* cpu_boostd, for one configuration of the floors.  Kicks arrive until the
\* clock stops; the calls in flight, the workers and cpu_boostd go on.  The
\* display is on at first, goes off at any moment and then stays off.
InitBoosts ==
    /\ Init
    /\ idle_min_freq_lp = 2

TickBoosts == jiffies < MaxJiffiesBoosts /\ Tick

DisplayOff == \E a \in FbActions : fb_notifier_cb(a, "FB_BLANK_POWERDOWN")

KickArrives ==
    /\ jiffies < MaxJiffiesBoosts
    /\ \/ powerhal_boost_kick_enter
       \/ powerhal_boost_kick_max_enter(1, 10)

NextBoosts ==
    \/ TickBoosts
    \/ KickArrives
    \/ powerhal_boost_kick_set_bit
    \/ powerhal_boost_kick_mod
    \/ powerhal_boost_kick_max(1)
    \/ Workers
    \/ DisplayOff
    \/ Coordinator
    \/ cpu_notifier_cb_max_boost
    \/ \E g \in Uninitialised : cpu_notifier_cb_boost(g)

SpecBoosts == InitBoosts /\ [][NextBoosts]_vars

\* powerhal_boost_duration = 0: input events and powerhal_boost_kick next to
\* powerhal_boost_kick_max, the display notifier and cpu_boostd.
InitDisabled ==
    /\ Init
    /\ idle_min_freq_lp = 2
    /\ powerhal_boost_duration = 0

NextDisabled ==
    \/ Tick
    \/ powerhal_boost_kick_enter
    \/ powerhal_boost_kick_max_enter(1, 10)
    \/ powerhal_boost_kick_max(1)
    \/ powerhal_max_unboost_dequeue
    \/ powerhal_max_unboost_worker
    \/ Display
    \/ Coordinator
    \/ cpu_notifier_cb_max_boost
    \/ \E g \in Uninitialised : cpu_notifier_cb_boost(g)

SpecDisabled == InitDisabled /\ [][NextDisabled]_vars

\* Kicks of both kinds, the unboost workers and the display notifier under the
\* guarantees of the kernel: the clock keeps advancing, a call that has
\* started runs to its end, and system_unbound_wq runs every work whose timer
\* has expired.  Nothing is assumed about when kicks and display events
\* arrive.
InitBoostBits ==
    /\ Init
    /\ idle_min_freq_lp = 2
    /\ powerhal_boost_duration = 10

NextBoostBits ==
    \/ Tick
    \/ powerhal_boost_kick
    \/ \E d \in KickMaxShort : powerhal_boost_kick_max_enter(1, d)
    \/ powerhal_boost_kick_max(1)
    \/ Workers
    \/ Display

FairBoostBits ==
    /\ InitBoostBits
    /\ [][NextBoostBits]_vars
    /\ WF_vars(Tick)
    /\ WF_vars(powerhal_boost_kick_set_bit)
    /\ WF_vars(powerhal_boost_kick_mod)
    /\ WF_vars(powerhal_boost_kick_max(1))
    /\ WF_vars(powerhal_unboost_dequeue)
    /\ WF_vars(powerhal_unboost_worker)
    /\ WF_vars(powerhal_max_unboost_dequeue)
    /\ WF_vars(powerhal_max_unboost_worker)

\* The policy notifier of both clusters against the three bits, within one
\* jiffy: the boost timer does not expire, a max-boost of 0 ms expires at once.
InitBridge ==
    /\ Init
    /\ powerhal_boost_duration = 10

NextBridge ==
    \/ powerhal_boost_kick
    \/ powerhal_boost_kick_max_enter(1, 0)
    \/ powerhal_boost_kick_max(1)
    \/ powerhal_max_unboost_dequeue
    \/ powerhal_max_unboost_worker
    \/ Display
    \/ Bridge

SpecBridge == InitBridge /\ [][NextBridge]_vars

\* cpu_input_boost_init from the start, with any of its registrations
\* failing; once it has returned 0 the driver runs.
InitBoot ==
    /\ InitDriver
    /\ init = [pc |-> "pm_qos_add_request", ret |-> 0]
    /\ acquired = << >>

Running == init.pc = "returned" /\ init.ret = 0 /\ NextCoordinator

NextBoot ==
    \/ cpu_input_boost_init
    \/ Running

SpecBoot == InitBoot /\ [][NextBoot]_vars

\* ============================================================ claims
\* The floors of the low-power cluster: the configured value, raised to the
\* cluster's minimum frequency.
IdleFloorLp == Max(idle_min_freq_lp, cpuinfo_min_freq("lp"))
BaseBoostFloorLp == Max(boost_min_freq_lp, cpuinfo_min_freq("lp"))

\* The step of cpu_notifier_cb that returns after the screen-on branch.
CbReturns == cb.pc = "boost" /\ cb'.pc = "idle"

\* The step on which cpu_boostd starts a recompute pass.
PassStarts == thread.pc # "update" /\ thread'.pc = "update"

\* C1: under fair scheduling no wake-up is lost: whenever the state bitset
\* differs from the value cpu_boostd last acted on, a recompute pass eventually
\* follows (or the bitset is back at that value), also when no further event
\* arrives after the change.
C1_EveryChangeRecomputed ==
    [](state # thread.old_state
         => <>(thread.pc = "update" \/ state = thread.old_state))

\* C2: the max-boost bit is not cleared before the latest issue time +
\* duration of the kick_max calls that have set it: a shorter request never
\* truncates a longer one.
C2_MaxBoostNotTruncated ==
    [][(POWERHAL_MAX_BOOST \in state /\ POWERHAL_MAX_BOOST \notin state')
         => jiffies >= max_boost_until]_vars

\* C3: the max-boost expiry deadline never decreases, whatever the
\* interleaving of concurrent kick_max calls.
C3_DeadlineNeverDecreases ==
    [][powerhal_max_boost_expires' >= powerhal_max_boost_expires]_vars

\* Two concurrent calls have both won their compare-and-swap.
C3_Witness ==
    /\ maxkicker[1].pc \in {"set_bit", "mod"}
    /\ maxkicker[2].pc \in {"set_bit", "mod"}
    /\ maxkicker[1].boost_jiffies # maxkicker[2].boost_jiffies
    /\ powerhal_max_boost_expires > 0

\* C4: a policy notifier call made while SCREEN_OFF is set leaves the idle
\* floor on the low-power cluster, whatever the boost bits are.
C4_ScreenOffWins ==
    [][(cpufreq_policy_notify("lp", "CPUFREQ_ADJUST") /\ SCREEN_OFF \in state)
         => policy_min'["lp"] = IdleFloorLp]_vars

\* A kick passed its SCREEN_OFF test, the display went off, the kick set its
\* bit, and the idle floor is in effect.
C4_Witness ==
    /\ SCREEN_OFF \in state
    /\ POWERHAL_BOOST \in state
    /\ kicker.pc = "mod"
    /\ cb.pc = "idle"
    /\ IdleFloorLp # BaseBoostFloorLp
    /\ policy_min["lp"] = IdleFloorLp

\* C5 as stated: with no bit set the notifier's floor is the cluster's
\* minimum frequency.
C5_FloorRevertsToClusterMinimum ==
    [][(CbReturns /\ state = {})
         => policy_min'[cb.cluster] = cpuinfo_min_freq(cb.cluster)]_vars

\* C5 as amended: with SCREEN_OFF clear the notifier's floor for the
\* low-power cluster is max(base-boost floor, cluster minimum), whether or
\* not a boost bit is set.
C5_FloorIsBaseBoostFloor ==
    [][(CbReturns /\ cb.cluster \in cpu_lp_mask)
         => policy_min'[cb.cluster] = BaseBoostFloorLp]_vars

\* cpu_boostd has completed a pass for the empty bitset (so after an earlier
\* pass for a non-empty one) and the floor is still the base-boost floor.
C5_Witness ==
    /\ thread.pc = "wait"
    /\ thread.old_state = {}
    /\ state = {}
    /\ boost_min_freq_lp > cpuinfo_min_freq("lp")
    /\ policy_min["lp"] = boost_min_freq_lp

\* C6: the boost bit is not cleared before the issue time + duration of the
\* last kick that set it.
C6_BoostHeldForDuration ==
    [][(POWERHAL_BOOST \in state /\ POWERHAL_BOOST \notin state')
         => jiffies >= boost_until]_vars

\* C7: every early-blank event updates SCREEN_OFF and wakes cpu_boostd.
C7_BlankEventWakes ==
    [][\A bl \in FbBlanks :
         (fb_notifier_cb("FB_EARLY_EVENT_BLANK", bl) /\ thread.pc = "sleep")
            => /\ thread'.pc = "woken"
               /\ (SCREEN_OFF \in state') = (bl # "FB_BLANK_UNBLANK")]_vars

\* C8: cpu_boostd starts a recompute pass only when the bitset it reads
\* differs from the one it last acted on, and then acts on the one it read.
C8_RecomputeOnlyOnChange ==
    [][PassStarts => (state # thread.old_state /\ thread'.old_state = state)]_vars

\* cpu_boostd has been woken while the boost bit is set and the bitset is the
\* one it last acted on.
C8_Witness ==
    /\ thread.pc = "woken"
    /\ POWERHAL_BOOST \in state
    /\ state = thread.old_state

\* C9 as stated: once the stop signal is raised no recompute pass starts.
C9_StopPreemptsRecompute ==
    [][kthread_stop => ~PassStarts]_vars

\* C9 as amended: cpu_boostd leaves its loop only on a stop signal seen while
\* the bitset is the one it last acted on, and never runs again; a pass
\* started after the stop signal serves a changed bitset.
C9_StopObservedWhenUnchanged ==
    [][/\ (thread.pc # "done" /\ thread'.pc = "done")
            => (kthread_stop /\ state = thread.old_state)
       /\ thread.pc = "done" => thread' = thread
       /\ (kthread_stop /\ PassStarts) => state # thread.old_state]_vars

\* cpu_boostd has exited after acting on a boosted bitset.
C9_Witness ==
    /\ thread.pc = "done"
    /\ kthread_stop
    /\ POWERHAL_BOOST \in thread.old_state

\* C10: a notifier call with SCREEN_OFF clear leaves the boosted hysteresis
\* values if the boost or the max-boost bit is set, the default ones if not.
C10_HysteresisBoostedIfEitherBit ==
    [][CbReturns
         => hyst' = IF POWERHAL_BOOST \in state \/ POWERHAL_MAX_BOOST \in state
                    THEN HystBoost ELSE HystUnboost]_vars

\* C11: a kick() or kick_max(d) that finds SCREEN_OFF set when it tests it
\* changes nothing: the bitset, the max-boost deadline and both delayed works
\* stay as they are, cpu_boostd is not woken and the call has returned.
C11_KickIsNoOpWhenScreenOff ==
    [][(/\ SCREEN_OFF \in state
        /\ \/ powerhal_boost_kick_enter
           \/ powerhal_boost_kick_max_enter(1, 10))
         => UNCHANGED <<state, powerhal_max_boost_expires, powerhal_unboost,
                        powerhal_max_unboost, thread, kicker, maxkicker>>]_vars

\* The display is off, cpu_boostd sleeps, a max-boost is still running with
\* its timer pending, and no kick is in flight: every kick issued here is one
\* of the calls the claim is about.
C11_Witness ==
    /\ SCREEN_OFF \in state
    /\ thread.pc = "sleep"
    /\ POWERHAL_MAX_BOOST \in state
    /\ powerhal_max_unboost.pending
    /\ powerhal_boost_duration > 0
    /\ kicker = IdleKick
    /\ maxkicker[1] = IdleKickMax

\* C12: every recompute pass of cpu_boostd runs the policy notifier for every
\* cluster: when the pass completes, no cluster has been left out.
C12_PassUpdatesEveryCluster ==
    [][(thread.pc = "update" /\ thread'.pc = "wait")
         => thread'.updated = Clusters]_vars

\* C13: when cpu_input_boost_init returns an error, nothing it acquired is
\* left in place, and what it releases it releases in the reverse of the
\* order of acquisition.
C13_FailedInitUnwindsEverything ==
    [][/\ (init.pc # "returned" /\ init'.pc = "returned" /\ init'.ret # 0)
            => acquired' = << >>
       /\ Len(acquired') < Len(acquired)
            => acquired' = SubSeq(acquired, 1, Len(acquired) - 1)]_vars

\* C14: with powerhal_boost_duration = 0 a kick changes nothing: the boost
\* bit is never set, the boost timer is never armed, the call returns at once
\* and cpu_boostd is not woken by it.
C14_NoInputBoostWhenDisabled ==
    /\ [](powerhal_boost_duration = 0
            => /\ POWERHAL_BOOST \notin state
               /\ powerhal_unboost = IdleWork
               /\ kicker = IdleKick)
    /\ [][(powerhal_boost_duration = 0 /\ powerhal_boost_kick_enter)
            => UNCHANGED <<state, powerhal_unboost, thread, kicker>>]_vars

\* With the duration at 0, a max-boost is running with its timer pending, the
\* policy notifier has relaxed the latency QoS for it, the display has gone
\* off since, and cpu_boostd has acted on both and sleeps.
C14_Witness ==
    /\ powerhal_boost_duration = 0
    /\ state = {SCREEN_OFF, POWERHAL_MAX_BOOST}
    /\ powerhal_max_unboost.pending
    /\ pm_qos_req = PM_QOS_WFI_LATENCY
    /\ thread.pc = "sleep"
    /\ thread.old_state = state

\* A powerhal_boost_kick_max(0) call of caller c that is past the SCREEN_OFF
\* test.
KickMaxZero(c) == maxkicker[c].pc # "idle" /\ maxkicker[c].boost_jiffies = 0

\* C15: kick_max(0) with the screen on.  When it reads a deadline later than
\* now it returns and leaves the deadline, the bitset and the timer as they
\* are; when it reads a deadline that is not later than now (now itself
\* included) it goes on to move the deadline to the now it read, sets the
\* max-boost bit and arms the timer to fire at once.
C15_KickMaxZeroNeverShortensAlwaysArms ==
    [][\A c \in Callers :
         /\ (KickMaxZero(c) /\ powerhal_boost_kick_max_read(c)
                /\ powerhal_max_boost_expires > jiffies)
              => /\ maxkicker'[c] = IdleKickMax
                 /\ UNCHANGED <<state, powerhal_max_boost_expires,
                                powerhal_max_unboost, thread>>
         /\ (KickMaxZero(c) /\ powerhal_boost_kick_max_read(c)
                /\ powerhal_max_boost_expires <= jiffies)
              => /\ maxkicker'[c].pc = "cmpxchg"
                 /\ maxkicker'[c].new_expires = jiffies
         /\ (KickMaxZero(c) /\ powerhal_boost_kick_max_cmpxchg(c)
                /\ powerhal_max_boost_expires = maxkicker[c].curr_expires)
              => /\ powerhal_max_boost_expires' = maxkicker[c].new_expires
                 /\ maxkicker'[c].pc = "set_bit"
         /\ (KickMaxZero(c) /\ powerhal_boost_kick_max_set_bit(c))
              => /\ POWERHAL_MAX_BOOST \in state'
                 /\ maxkicker'[c].pc = "mod"
         /\ (KickMaxZero(c) /\ powerhal_boost_kick_max_mod(c))
              => /\ powerhal_max_unboost'.pending
                 /\ powerhal_max_unboost'.expires = jiffies]_vars

\* A kick_max(0) has read, at the very jiffy an earlier max-boost ends, the
\* deadline of that boost (deadline = now, the max-boost bit still set and
\* its timer pending) and goes on to arm.
C15_Witness ==
    /\ maxkicker[1].pc = "cmpxchg"
    /\ maxkicker[1].boost_jiffies = 0
    /\ maxkicker[1].curr_expires = jiffies
    /\ maxkicker[1].new_expires = jiffies
    /\ maxkicker[2].pc = "idle"
    /\ jiffies > 0
    /\ POWERHAL_MAX_BOOST \in state
    /\ powerhal_max_unboost.pending

\* The steps on which a worker function runs.
UnboostWorkerRuns == powerhal_unboost.run /\ ~powerhal_unboost'.run
MaxUnboostWorkerRuns == powerhal_max_unboost.run /\ ~powerhal_max_unboost'.run

\* C16: a worker clears its own bit and no other, wakes a sleeping
\* cpu_boostd, and leaves the max-boost deadline, the other delayed work and
\* a timer of its own that was re-armed while it ran (pending, same deadline)
\* as they are.
C16_WorkerClearsOnlyItsOwnBit ==
    [][/\ UnboostWorkerRuns
            => /\ state' = state \ {POWERHAL_BOOST}
               /\ thread.pc = "sleep" => thread'.pc = "woken"
               /\ UNCHANGED <<powerhal_max_boost_expires, powerhal_max_unboost>>
               /\ powerhal_unboost'.pending = powerhal_unboost.pending
               /\ powerhal_unboost'.expires = powerhal_unboost.expires
       /\ MaxUnboostWorkerRuns
            => /\ state' = state \ {POWERHAL_MAX_BOOST}
               /\ thread.pc = "sleep" => thread'.pc = "woken"
               /\ UNCHANGED powerhal_unboost
               /\ powerhal_max_unboost'.pending = powerhal_max_unboost.pending
               /\ powerhal_max_unboost'.expires = powerhal_max_unboost.expires]_vars

\* The boost worker has run while its timer was armed again: the boost bit is
\* clear and the timer pending, the max-boost bit is still set with its own
\* timer pending, and cpu_boostd, which had acted on the boosted bitset, has
\* been woken.
C16_Witness ==
    /\ POWERHAL_BOOST \notin state
    /\ powerhal_unboost.pending
    /\ ~powerhal_unboost.run
    /\ kicker = IdleKick
    /\ POWERHAL_MAX_BOOST \in state
    /\ powerhal_max_unboost.pending
    /\ thread.pc = "woken"
    /\ POWERHAL_BOOST \in thread.old_state

\* C17: after every policy notifier call made while SCREEN_OFF is set or
\* while POWERHAL_MAX_BOOST is clear, the latency-QoS request holds the
\* default value.
C17_LatencyRelaxedOnlyWhileMaxBoosted ==
    [][/\ (cpufreq_policy_notify("lp", "CPUFREQ_ADJUST") /\ SCREEN_OFF \in state)
            => pm_qos_req' = PM_QOS_CPU_DMA_LAT_DEFAULT_VALUE
       /\ (CbReturns /\ POWERHAL_MAX_BOOST \notin state)
            => pm_qos_req' = PM_QOS_CPU_DMA_LAT_DEFAULT_VALUE]_vars

KickStarts ==
    \/ kicker.pc = "idle" /\ kicker'.pc # "idle"
    \/ \E c \in Callers : maxkicker[c].pc = "idle" /\ maxkicker'[c].pc # "idle"

C19_FloorAtLeastClusterMinimum ==
    \A c \in Clusters : policy_min[c] >= cpuinfo_min_freq(c)

\* With idle_min_freq_lp below the low-power cluster's minimum, the last
\* notifier call was made for that cluster with SCREEN_OFF set and has left
\* the cluster's minimum as the floor; the performance cluster's floor has
\* been written too.
C19_Witness ==
    /\ idle_min_freq_lp < cpuinfo_min_freq("lp")
    /\ boost_min_freq_lp > cpuinfo_min_freq("lp")
    /\ SCREEN_OFF \in state
    /\ schedtune_disabled
    /\ cb = [pc |-> "idle", cluster |-> "lp", by |-> "cpufreq"]
    /\ policy_min["lp"] = cpuinfo_min_freq("lp")
    /\ policy_min["perf"] > cpuinfo_min_freq("perf")

\* C20: the floor a notifier call writes is determined by the bitset, the
\* configured floors and the cluster: it is the value that every outcome of
\* the call would have written.
C20_FloorIsDeterministic ==
    [][/\ CbReturns
            => \A g \in Uninitialised :
                  policy_min'[cb.cluster] = get_min_freq(cb.cluster, g)
       /\ \A c \in Clusters :
            (cpufreq_policy_notify(c, "CPUFREQ_ADJUST") /\ SCREEN_OFF \in state)
              => \A g \in Uninitialised :
                    policy_min'[c] = get_idle_freq(c, g)]_vars

====
